---- MODULE Spec2Model ----
(***************************************************************************)
(* OnSchedService (src/python/onsched_service.py): the OAuth2 token        *)
(* lifecycle of the two sessions (self.session, self.admin_session) and    *)
(* the paginated fetch / single-request write helpers built on them.       *)
(*                                                                         *)
(* A step of a caller is the code between two network calls: time can pass *)
(* (Tick) only while a caller waits for the token endpoint or for the      *)
(* resource endpoint.                                                      *)
(***************************************************************************)
EXTENDS Integers, Sequences, FiniteSets, TLC

\* ---------------------------------------------------------------- bounds
MaxTime == 2          \* wall-clock instants 0..MaxTime
MaxTTL == 2           \* expires_in of an issued token, 1..MaxTTL
TimedPages == 2       \* pages the server holds per list, in Spec
TimedPageLen == 1     \* items of every page, in Spec
MaxPages == 3         \* pages the server holds per list, in SpecFetch
MaxPageLen == 2       \* items per page, in SpecFetch

\* ------------------------------------------------------ program constants
PageSize == 100

Threads == {"t1", "t2"}
Sessions == {"consumer", "setup"}
None == 0
ObjIds == 1..(Cardinality(Threads) + 2)
Statuses == {200, 304, 401, 500}

FetchOps == {"fetch_data", "fetch_setup_data"}
WriteOps == {"post_data", "update_data", "post_setup_data",
             "update_setup_data", "delete_setup_data"}
Ops == FetchOps \cup WriteOps

VARIABLES
    now,        \* datetime.now(timezone.utc).timestamp()
    client,     \* "new" (constructor not run), "ready", "failed" (constructor raised)
    endpoints,  \* self.token_url, self.consumer_api, self.setup_api
    lim,        \* what the server holds: [pages, lens, totals]
    session,    \* self.session / self.admin_session: an object id or None
    objs,       \* the OAuth2Session objects: id -> its token
    lastFetch,  \* per session, the last answer of the token endpoint
    th          \* per caller: its position, locals and what it did in this call

vars == <<now, client, endpoints, lim, session, objs, lastFetch, th>>

\* ----------------------------------------------------------------- tokens
NoToken == [set |-> FALSE, expires_at |-> 0]          \* OAuth2Session.token == {}
Token(e) == [set |-> TRUE, expires_at |-> e]

\* ------------------------------------------------------------------ pages
\* A decoded response: each optional key with its presence flag.
NoPage ==
    [hasHasMore |-> FALSE, hasMore |-> FALSE, hasData |-> FALSE, data |-> <<>>,
     hasTotal |-> FALSE, total |-> 0, hasCount |-> FALSE, count |-> 0, url |-> 0]

\* The items of page k (0-based) are tagged with k and their position.
Items(k, len) == [i \in 1..len |-> 10 * (k + 1) + i]

MkPage(k, hm, len, ht) ==
    [hasHasMore |-> hm # "absent", hasMore |-> hm = "true",
     hasData |-> len >= 0, data |-> IF len > 0 THEN Items(k, len) ELSE <<>>,
     hasTotal |-> ht, total |-> IF ht THEN 50 + k ELSE 0,
     hasCount |-> FALSE, count |-> 0, url |-> k + 1]

\* What the server can answer for page k: its last page never says hasMore.
ServerPages(k) ==
    { MkPage(k, hm, len, ht) :
        hm \in IF k + 1 < lim.pages THEN {"absent", "true", "false"}
                                    ELSE {"absent", "false"},
        len \in lim.lens, ht \in lim.totals }

\* The decoded body of a write request.
Body == MkPage(0, "absent", -1, FALSE)

\* ---------------------------------------------------------------- callers
SessOf(op) == IF op \in {"fetch_data", "post_data", "update_data", "ctor"}
              THEN "consumer" ELSE "setup"

MethodOf(op) ==
    CASE op \in FetchOps -> "GET"
      [] op \in {"post_data", "post_setup_data"} -> "POST"
      [] op \in {"update_data", "update_setup_data"} -> "PUT"
      [] OTHER -> "DELETE"

\* What a call found when it started: the session object, its token, the time
\* and the last answer the token endpoint gave for that session.
NoEntry == [obj |-> None, tok |-> NoToken, at |-> 0, last |-> "none"]

\* The public operations.
Operations ==
    {"locations", "location", "services", "customers", "availability",
     "appointments", "create_appointment", "book_appointment",
     "cancel_appointment", "create_resource", "update_resource",
     "delete_resource", "create_service", "delete_service",
     "service_allocations", "service_allocation", "create_service_allocation"}

\* Those that take date or datetime arguments.
PublicOps ==
    {"availability", "appointments", "create_appointment", "service_allocations",
     "create_service_allocation", "create_resource", "update_resource"}

\* The API base each operation builds its URL on: f'{self.setup_api}/...' or
\* f'{self.consumer_api}/...'.
UrlBase(api) ==
    IF api \in {"create_resource", "update_resource", "delete_resource",
                "create_service", "delete_service", "create_service_allocation"}
    THEN "setup" ELSE "consumer"

\* The helper each operation ends with.
HelperOf(api) ==
    CASE api \in {"locations", "location", "services", "customers", "availability",
                  "appointments", "service_allocation"} -> "fetch_data"
      [] api \in {"create_appointment", "create_service"} -> "post_data"
      [] api \in {"book_appointment", "cancel_appointment"} -> "update_data"
      [] api = "service_allocations" -> "fetch_setup_data"
      [] api \in {"create_service_allocation", "create_resource"} -> "post_setup_data"
      [] api = "update_resource" -> "update_setup_data"
      [] OTHER -> "delete_setup_data"

\* What a caller can pass as a date argument: None, a date, a datetime, a
\* non-empty string, the empty string, a non-zero number, or 0.
ArgKinds == {"none", "date", "datetime", "str", "empty", "number", "zero"}

\* Python truthiness of such a value.
Truthy(a) == a \in {"date", "datetime", "str", "number"}

\* type(x) is str
IsStr(a) == a \in {"str", "empty"}

\* The calendar days <<year, month, day>> and the instants <<day, <<hour,
\* minute, second, microsecond>>>> the callers use.
Dates == {<<2020, 1, 5>>}

Datetimes ==
    {<<<<2020, 1, 5>>, <<9, 30, 0, 0>>>>, <<<<2021, 12, 31>>, <<23, 5, 59, 1500>>>>}

NoDate == <<0, 0, 0>>

NoTime == <<0, 0, 0, 0>>

\* The decimal text of n, zero-padded to w digits ('%0wd').
RECURSIVE Pad(_, _)
Pad(n, w) == IF Len(ToString(n)) >= w THEN ToString(n) ELSE "0" \o Pad(n, w - 1)

\* Variant: str(datetime), a space between day and time.
isoformat_space(v) ==
    LET day == Pad(v.d[1], 4) \o "-" \o Pad(v.d[2], 2) \o "-" \o Pad(v.d[3], 2)
        time == Pad(v.tm[1], 2) \o ":" \o Pad(v.tm[2], 2) \o ":" \o Pad(v.tm[3], 2)
        us == IF v.tm[4] = 0 THEN "" ELSE "." \o Pad(v.tm[4], 6)
    IN IF v.kind = "date" THEN day ELSE day \o " " \o time \o us

\* Variant: the fields are not zero-padded.
isoformat_unpadded(v) ==
    LET day == ToString(v.d[1]) \o "-" \o ToString(v.d[2]) \o "-" \o ToString(v.d[3])
        time == ToString(v.tm[1]) \o ":" \o ToString(v.tm[2]) \o ":" \o ToString(v.tm[3])
        us == IF v.tm[4] = 0 THEN "" ELSE "." \o ToString(v.tm[4])
    IN IF v.kind = "date" THEN day ELSE day \o "T" \o time \o us

\* date.isoformat(): 'YYYY-MM-DD'; datetime.isoformat() of a naive datetime:
\* 'YYYY-MM-DDTHH:MM:SS', followed by '.ffffff' if microsecond is not 0.
isoformat(v) ==
    LET day == Pad(v.d[1], 4) \o "-" \o Pad(v.d[2], 2) \o "-" \o Pad(v.d[3], 2)
        time == Pad(v.tm[1], 2) \o ":" \o Pad(v.tm[2], 2) \o ":" \o Pad(v.tm[3], 2)
        us == IF v.tm[4] = 0 THEN "" ELSE "." \o Pad(v.tm[4], 6)
    IN IF v.kind = "date" THEN day ELSE day \o "T" \o time \o us

\* The values of each kind.
NoneValue == [kind |-> "none", d |-> NoDate, tm |-> NoTime, text |-> ""]

DateValue(d) == [kind |-> "date", d |-> d, tm |-> NoTime, text |-> ""]

DatetimeValue(d, tm) == [kind |-> "datetime", d |-> d, tm |-> tm, text |-> ""]

StrValue(text) ==
    [kind |-> IF text = "" THEN "empty" ELSE "str", d |-> NoDate, tm |-> NoTime,
     text |-> text]

NumberValue(zero) ==
    [kind |-> IF zero THEN "zero" ELSE "number", d |-> NoDate, tm |-> NoTime,
     text |-> ""]

\* The strings callers pass: the ISO-8601 text of a date, a text that is no
\* date, and the empty string.
Texts == {isoformat(DateValue(d)) : d \in Dates} \cup {"next tuesday", ""}

ArgValues ==
    {NoneValue}
    \cup {DateValue(d) : d \in Dates}
    \cup {DatetimeValue(dt[1], dt[2]) : dt \in Datetimes}
    \cup {StrValue(text) : text \in Texts}
    \cup {NumberValue(zero) : zero \in BOOLEAN}

NoArgs == <<NoneValue, NoneValue>>

\* An entry of the query parameter map or of the payload: present with a
\* value, or absent.
Forwarded(text) == [set |-> TRUE, value |-> text]

NotForwarded == [set |-> FALSE, value |-> ""]

NoParams == <<NotForwarded, NotForwarded>>

IdleThread ==
    [pc |-> "idle", op |-> "none", api |-> "none", args |-> NoArgs, opt |-> FALSE,
     url |-> "", params |-> NoParams,
     sess |-> "consumer", obj |-> None,
     offset |-> 0, has_more |-> FALSE, dataNone |-> TRUE, data |-> <<>>,
     formatted_response |-> NoPage, inLoop |-> FALSE,
     \* what the call did so far
     checked |-> FALSE, fetches |-> 0, tokenFailed |-> FALSE, issued |-> NoToken,
     entry |-> NoEntry, reqs |-> <<>>, pages |-> <<>>, status |-> 0,
     outcome |-> "none", err |-> "none", errStatus |-> 0, result |-> NoPage]

\* ------------------------------------------------------- session objects
Referenced(i, sess, thr) ==
    \/ \E s \in Sessions : sess[s] = i
    \/ \E t \in Threads : thr[t].obj = i

\* An object nothing refers to any more is gone.
Collect(o, sess, thr) ==
    [i \in ObjIds |-> IF Referenced(i, sess, thr) THEN o[i] ELSE NoToken]

FreshObj(sess, thr) ==
    CHOOSE i \in ObjIds :
        /\ ~Referenced(i, sess, thr)
        /\ \A j \in ObjIds : ~Referenced(j, sess, thr) => i <= j

\* Variants of the validity test: a one-second skew margin, and the boundary
\* instant counted as valid.
SessionValidSkew(sid, o, t) ==
    /\ sid # None
    /\ o[sid].set
    /\ o[sid].expires_at > t + 1

SessionValidInclusive(sid, o, t) ==
    /\ sid # None
    /\ o[sid].set
    /\ o[sid].expires_at >= t

\* if self.session and self.session.token and token['expires_at'] > unix_timestamp
SessionValid(sid, o, t) ==
    /\ sid # None
    /\ o[sid].set
    /\ o[sid].expires_at > t

\* _set_session / _set_setup_session up to the call of fetch_token: either the
\* session is valid and nothing happens, or a new token-less session object
\* replaces it and the caller waits for the token endpoint.
SetSessionOn(s, r, sess, o, thr, t) ==
    IF SessionValid(sess[s], o, t)
    THEN [valid |-> TRUE, session |-> sess, objs |-> o,
          r |-> [r EXCEPT !.sess = s, !.checked = TRUE]]
    ELSE LET n == FreshObj(sess, thr) IN
         [valid |-> FALSE,
          session |-> [sess EXCEPT ![s] = n],
          objs |-> [o EXCEPT ![n] = NoToken],
          r |-> [r EXCEPT !.sess = s, !.checked = TRUE, !.pc = "await_token",
                          !.obj = n, !.fetches = @ + 1]]

set_session(r, sess, o, thr, t) == SetSessionOn("consumer", r, sess, o, thr, t)

\* Variant: the setup check works on the consumer session attribute.
set_setup_session_shared(r, sess, o, thr, t) ==
    IF /\ sess["consumer"] # None
       /\ o[sess["consumer"]].set
       /\ o[sess["consumer"]].expires_at > t
    THEN [valid |-> TRUE, session |-> sess, objs |-> o,
          r |-> [r EXCEPT !.sess = "setup", !.checked = TRUE]]
    ELSE LET n == FreshObj(sess, thr) IN
         [valid |-> FALSE,
          session |-> [sess EXCEPT !["consumer"] = n],
          objs |-> [o EXCEPT ![n] = NoToken],
          r |-> [r EXCEPT !.sess = "setup", !.checked = TRUE, !.pc = "await_token",
                          !.obj = n, !.fetches = @ + 1]]

\* _set_setup_session: the same test and replacement on self.admin_session.
set_setup_session(r, sess, o, thr, t) ==
    IF /\ sess["setup"] # None
       /\ o[sess["setup"]].set
       /\ o[sess["setup"]].expires_at > t
    THEN [valid |-> TRUE, session |-> sess, objs |-> o,
          r |-> [r EXCEPT !.sess = "setup", !.checked = TRUE]]
    ELSE LET n == FreshObj(sess, thr) IN
         [valid |-> FALSE,
          session |-> [sess EXCEPT !["setup"] = n],
          objs |-> [o EXCEPT ![n] = NoToken],
          r |-> [r EXCEPT !.sess = "setup", !.checked = TRUE, !.pc = "await_token",
                          !.obj = n, !.fetches = @ + 1]]

EnsureValid(s, r, sess, o, thr, t) ==
    IF s = "consumer" THEN set_session(r, sess, o, thr, t)
                      ELSE set_setup_session(r, sess, o, thr, t)

\* fetch_token returned: the token is stored in the session object it was called on.
InstallToken(o, id, tok) == [o EXCEPT ![id] = tok]

\* Variant: a failed fetch leaves a token in the session object.
fetch_token_raises_partial(o, id) == [o EXCEPT ![id] = Token(MaxTime + 1)]

\* fetch_token raised: the new session object keeps its empty token.
fetch_token_raises(o, id) == o

\* Variant: the failed fetch is tried again.
on_token_failure_retry(r) == [r EXCEPT !.fetches = @ + 1]

\* Nothing catches the exception of fetch_token: it leaves _set_session and the
\* helper that called it.
on_token_failure(r) ==
    [r EXCEPT !.pc = "idle", !.obj = None, !.outcome = "error",
              !.err = "AuthenticationError", !.errStatus = 0, !.result = NoPage]

\* self.session.get/post/put(url), self.admin_session.get/post/put/delete(url):
\* one request on the object the named session attribute refers to now,
\* carrying whatever token that object holds.
Send(s, r, sess, o, t) ==
    LET sid == sess[s]
        req == [sess |-> s, obj |-> sid, tok |-> o[sid], sentAt |-> t,
                method |-> MethodOf(r.op), url |-> r.url, params |-> r.params,
                offset |-> r.offset,
                limit |-> IF r.op \in FetchOps THEN PageSize ELSE 0,
                checked |-> r.checked, fetches |-> r.fetches]
    IN [r EXCEPT !.pc = "await_resp", !.obj = None, !.checked = FALSE,
                 !.reqs = Append(@, req)]

\* An exception leaves the helper: the call is over and returns nothing.
Raise(r, e, st) ==
    [r EXCEPT !.pc = "idle", !.obj = None, !.outcome = "error", !.err = e,
              !.errStatus = st, !.result = NoPage]

Return(r, res) ==
    [r EXCEPT !.pc = "idle", !.obj = None, !.outcome = "returned", !.result = res]

\* Variant: only server errors raise.
RaisesForServerErrors(st) == st >= 500 /\ st < 600

\* response.raise_for_status(): requests raises HTTPError for 4xx and 5xx only.
RaisesForStatus(st) == st >= 400 /\ st < 600

\* -------------------------------------------------------------- endpoints
SANDBOX_TOKEN_URL == "https://sandbox-identity.onsched.com/connect/token"

SANDBOX_API_URL_BASE == "https://sandbox-api.onsched.com"

PROD_TOKEN_URL == "https://identity.onsched.com/connect/token"

PROD_API_URL_BASE == "https://api.onsched.com"

\* Values a caller can pass as environment: the two documented ones and two
\* that are not recognized.
Environments == {"sandbox", "live", "Live", "production"}

NoEndpoints == [environment |-> "", token_url |-> "", consumer_api |-> "", setup_api |-> ""]

\* Variant: 'live' switches the API bases and leaves the token URL.
EndpointsApiOnly(environment) ==
    IF environment = "live"
    THEN [environment |-> environment,
          token_url |-> SANDBOX_TOKEN_URL,
          consumer_api |-> PROD_API_URL_BASE \o "/consumer/v1",
          setup_api |-> PROD_API_URL_BASE \o "/setup/v1"]
    ELSE [environment |-> environment,
          token_url |-> SANDBOX_TOKEN_URL,
          consumer_api |-> SANDBOX_API_URL_BASE \o "/consumer/v1",
          setup_api |-> SANDBOX_API_URL_BASE \o "/setup/v1"]

\* __init__: the sandbox values are assigned first and replaced, all three,
\* if environment == 'live'.
Endpoints(environment) ==
    IF environment = "live"
    THEN [environment |-> environment,
          token_url |-> PROD_TOKEN_URL,
          consumer_api |-> PROD_API_URL_BASE \o "/consumer/v1",
          setup_api |-> PROD_API_URL_BASE \o "/setup/v1"]
    ELSE [environment |-> environment,
          token_url |-> SANDBOX_TOKEN_URL,
          consumer_api |-> SANDBOX_API_URL_BASE \o "/consumer/v1",
          setup_api |-> SANDBOX_API_URL_BASE \o "/setup/v1"]

\* ---------------------------------------------------------------- actions
TypeOK ==
    /\ now \in 0..MaxTime
    /\ client \in {"new", "ready", "failed"}
    /\ \A s \in Sessions : session[s] \in ObjIds \cup {None}

Init ==
    /\ now = 0
    /\ client = "new"
    /\ endpoints = NoEndpoints
    /\ lim = [pages |-> TimedPages, lens |-> {TimedPageLen}, totals |-> {TRUE}]
    /\ session = [s \in Sessions |-> None]
    /\ objs = [i \in ObjIds |-> NoToken]
    /\ lastFetch = [s \in Sessions |-> [state |-> "none", tok |-> NoToken, url |-> ""]]
    /\ th = [t \in Threads |-> IdleThread]

\* The wall clock advances.
Tick ==
    /\ now < MaxTime
    /\ now' = now + 1
    /\ UNCHANGED <<client, endpoints, lim, session, objs, lastFetch, th>>

\* Variant: the constructor fetches nothing and leaves the sessions to the
\* first call.
ConstructLazy(t, environment) ==
    /\ client = "new"
    /\ \A u \in Threads : th[u].pc = "idle"
    /\ endpoints' = Endpoints(environment)
    /\ th' = [th EXCEPT ![t] = [IdleThread EXCEPT !.op = "ctor", !.outcome = "returned"]]
    /\ client' = "ready"
    /\ UNCHANGED <<now, lim, session, objs, lastFetch>>

\* __init__: the endpoints are chosen by environment, then self.session = None;
\* self.admin_session = None; self._set_session()
Construct(t, environment) ==
    /\ client = "new"
    /\ \A u \in Threads : th[u].pc = "idle"
    /\ endpoints' = Endpoints(environment)
    /\ LET r0 == [IdleThread EXCEPT !.op = "ctor"]
           e == set_session(r0, session, objs, th, now)
       IN /\ ~e.valid
          /\ session' = e.session
          /\ th' = [th EXCEPT ![t] = e.r]
          /\ objs' = Collect(e.objs, session', th')
    /\ UNCHANGED <<now, client, lim, lastFetch>>

\* What a public operation hands to its helper: itself, its arguments, the
\* URL base and the date entries of its query map or payload.
NoCall == [api |-> "none", args |-> NoArgs, opt |-> FALSE, url |-> "", params |-> NoParams]

\* A helper is called, by itself or at the end of a public operation: it
\* verifies the session, then sends its (first) request.
Invoke(t, op, c) ==
    /\ client = "ready"
    /\ th[t].pc = "idle"
    /\ LET s == SessOf(op)
           r0 == [IdleThread EXCEPT
                    !.op = op, !.api = c.api, !.args = c.args, !.opt = c.opt,
                    !.url = c.url, !.params = c.params,
                    !.entry = [obj |-> session[s],
                               tok |-> IF session[s] = None THEN NoToken
                                       ELSE objs[session[s]],
                               at |-> now, last |-> lastFetch[s].state]]
           e == EnsureValid(s, r0, session, objs, th, now)
       IN /\ session' = e.session
          /\ th' = [th EXCEPT ![t] = IF e.valid THEN Send(s, e.r, e.session, e.objs, now)
                                                ELSE e.r]
          /\ objs' = Collect(e.objs, session', th')
    /\ UNCHANGED <<now, client, endpoints, lim, lastFetch>>

Call(t, op) == Invoke(t, op, NoCall)

\* availability: type(start_date) is date / is str / else raise TypeError,
\* and the same for end_date.
availability_raises(a1, a2) ==
    \/ ~(a1 = "date" \/ IsStr(a1))
    \/ ~(a2 = "date" \/ IsStr(a2))

\* appointments: if start_date: datetime or date / str / else raise TypeError,
\* and the same for end_date.
appointments_raises(a1, a2) ==
    \/ Truthy(a1) /\ a1 \notin {"datetime", "date", "str"}
    \/ Truthy(a2) /\ a2 \notin {"datetime", "date", "str"}

\* create_appointment: type(start_date_time) is datetime / is str / else raise.
create_appointment_raises(a1, a2) ==
    \/ ~(a1 = "datetime" \/ IsStr(a1))
    \/ ~(a2 = "datetime" \/ IsStr(a2))

\* service_allocations: if start_date: date or datetime / str / else raise.
service_allocations_raises(a1, a2) ==
    \/ Truthy(a1) /\ a1 \notin {"date", "datetime", "str"}
    \/ Truthy(a2) /\ a2 \notin {"date", "datetime", "str"}

\* create_service_allocation: type(start_date) is date / is str / else raise.
create_service_allocation_raises(a1, a2) ==
    \/ ~(a1 = "date" \/ IsStr(a1))
    \/ ~(a2 = "date" \/ IsStr(a2))

\* _get_resources_data: if effective_date: datetime / str / else raise.
get_resources_data_raises(a1) ==
    Truthy(a1) /\ a1 \notin {"datetime", "str"}

RaisesTypeError(api, a1, a2) ==
    CASE api = "availability" -> availability_raises(a1, a2)
      [] api = "appointments" -> appointments_raises(a1, a2)
      [] api = "create_appointment" -> create_appointment_raises(a1, a2)
      [] api = "service_allocations" -> service_allocations_raises(a1, a2)
      [] api = "create_service_allocation" -> create_service_allocation_raises(a1, a2)
      [] api \in {"create_resource", "update_resource"} -> get_resources_data_raises(a1)
      [] OTHER -> FALSE

\* availability: startDate = start_date.isoformat() for a date, start_date for
\* a string; both go into the URL.
availability_date(v) ==
    IF v.kind = "date" THEN Forwarded(isoformat(v)) ELSE Forwarded(v.text)

\* appointments: params_map['startDate'] is set if start_date is truthy, to
\* start_date.isoformat() for a datetime or a date, to start_date for a string.
appointments_date(v) ==
    IF ~Truthy(v.kind) THEN NotForwarded
    ELSE IF v.kind \in {"datetime", "date"} THEN Forwarded(isoformat(v))
    ELSE Forwarded(v.text)

\* create_appointment: payload['startDateTime'] = start_date_time.isoformat()
\* for a datetime, start_date_time for a string.
create_appointment_date_time(v) ==
    IF v.kind = "datetime" THEN Forwarded(isoformat(v)) ELSE Forwarded(v.text)

\* service_allocations: as appointments.
service_allocations_date(v) ==
    IF ~Truthy(v.kind) THEN NotForwarded
    ELSE IF v.kind \in {"date", "datetime"} THEN Forwarded(isoformat(v))
    ELSE Forwarded(v.text)

\* create_service_allocation: payload['startDate'] = start_date.isoformat()
\* for a date, start_date for a string.
create_service_allocation_date(v) ==
    IF v.kind = "date" THEN Forwarded(isoformat(v)) ELSE Forwarded(v.text)

\* _get_resources_data: options['effectiveDate'] is set if effective_date is
\* truthy, to effective_date.isoformat() for a datetime, to effective_date for
\* a string.
get_resources_data_effective_date(v) ==
    IF ~Truthy(v.kind) THEN NotForwarded
    ELSE IF v.kind = "datetime" THEN Forwarded(isoformat(v))
    ELSE Forwarded(v.text)

\* The date entries an operation that did not raise puts into its URL, query
\* map or payload.
DateParams(api, v1, v2) ==
    CASE api = "availability" -> <<availability_date(v1), availability_date(v2)>>
      [] api = "appointments" -> <<appointments_date(v1), appointments_date(v2)>>
      [] api = "create_appointment" ->
            <<create_appointment_date_time(v1), create_appointment_date_time(v2)>>
      [] api = "service_allocations" ->
            <<service_allocations_date(v1), service_allocations_date(v2)>>
      [] api = "create_service_allocation" ->
            <<create_service_allocation_date(v1), create_service_allocation_date(v2)>>
      [] api \in {"create_resource", "update_resource"} ->
            <<get_resources_data_effective_date(v1), NotForwarded>>
      [] OTHER -> NoParams

\* availability: params_map['resourceIds'] = resource_ids.join(',') if
\* resource_ids is truthy; a list has no attribute join.
availability_resource_ids_raises(api, opt) == api = "availability" /\ opt

\* create_service: if fee: payload['fee'] reads a key the payload does not
\* have.
create_service_fee_raises(api, opt) == api = "create_service" /\ opt

\* What the operation raises before it calls its helper, "none" if nothing.
RaisedBeforeHelper(api, a1, a2, opt) ==
    IF RaisesTypeError(api, a1.kind, a2.kind) THEN "TypeError"
    ELSE IF availability_resource_ids_raises(api, opt) THEN "AttributeError"
    ELSE IF create_service_fee_raises(api, opt) THEN "KeyError"
    ELSE "none"

\* The URL base of an operation in this client.
BaseUrl(api) ==
    IF UrlBase(api) = "setup" THEN endpoints.setup_api ELSE endpoints.consumer_api

\* A public operation is called with date arguments a1 and a2 (the resource
\* operations have one, effective_date; the others none) and, for
\* availability, a non-empty list of resource ids or, for create_service, a fee
\* item (opt): it checks them while it builds the URL or the payload, then
\* calls its helper.
PublicCall(t, api, a1, a2, opt) ==
    /\ client = "ready"
    /\ th[t].pc = "idle"
    /\ api \in {"create_resource", "update_resource"} => a2 = NoneValue
    /\ api \notin PublicOps => a1 = NoneValue /\ a2 = NoneValue
    /\ opt => api \in {"availability", "create_service"}
    /\ LET raised == RaisedBeforeHelper(api, a1, a2, opt) IN
       IF raised # "none"
       THEN /\ th' = [th EXCEPT ![t] =
                        Raise([IdleThread EXCEPT !.op = HelperOf(api), !.api = api,
                                                 !.args = <<a1, a2>>, !.opt = opt],
                              raised, 0)]
            /\ UNCHANGED <<now, client, endpoints, lim, session, objs, lastFetch>>
       ELSE Invoke(t, HelperOf(api),
                   [api |-> api, args |-> <<a1, a2>>, opt |-> opt,
                    url |-> BaseUrl(api), params |-> DateParams(api, a1, a2)])

\* The token endpoint answers with a token: fetch_token stores it and returns.
TokenIssued(t, ttl) ==
    /\ th[t].pc = "await_token"
    /\ LET r == th[t]
           tok == Token(now + ttl)
           o1 == InstallToken(objs, r.obj, tok)
           r1 == [r EXCEPT !.obj = None, !.issued = tok]
       IN /\ lastFetch' = [lastFetch EXCEPT ![r.sess] = [state |-> "ok", tok |-> tok, url |-> endpoints.token_url]]
          /\ IF r.op = "ctor" /\ r.sess = "consumer"
             THEN \* __init__ goes on with self._set_setup_session()
                  LET e == set_setup_session(r1, session, o1,
                                             [th EXCEPT ![t] = r1], now)
                  IN /\ session' = e.session
                     /\ th' = [th EXCEPT ![t] = IF e.valid
                                                THEN [e.r EXCEPT !.pc = "idle",
                                                                 !.outcome = "returned"]
                                                ELSE e.r]
                     /\ objs' = Collect(e.objs, session', th')
                     /\ client' = IF e.valid THEN "ready" ELSE client
             ELSE IF r.op = "ctor"
             THEN /\ th' = [th EXCEPT ![t] = [r1 EXCEPT !.pc = "idle",
                                                        !.outcome = "returned"]]
                  /\ objs' = Collect(o1, session, th')
                  /\ client' = "ready"
                  /\ UNCHANGED session
             ELSE /\ th' = [th EXCEPT ![t] = Send(SessOf(r.op), r1, session, o1, now)]
                  /\ objs' = Collect(o1, session, th')
                  /\ UNCHANGED <<client, session>>
    /\ UNCHANGED <<now, endpoints, lim>>

\* The token endpoint fails (network error, non-2xx, malformed body):
\* fetch_token raises and the exception leaves the helper.
TokenFailed(t) ==
    /\ th[t].pc = "await_token"
    /\ LET r == th[t] IN
       /\ lastFetch' = [lastFetch EXCEPT ![r.sess] = [state |-> "failed", tok |-> NoToken, url |-> endpoints.token_url]]
       /\ th' = [th EXCEPT ![t] = [on_token_failure(r) EXCEPT !.tokenFailed = TRUE]]
       /\ objs' = Collect(fetch_token_raises(objs, r.obj), session, th')
       /\ client' = IF r.op = "ctor" THEN "failed" ELSE client
    /\ UNCHANGED <<now, endpoints, lim, session>>

\* Variant: a 401 answer makes the helper fetch a new token and try again.
write_result_refresh(r, st, ok) ==
    LET r1 == [r EXCEPT !.status = st] IN
    IF st = 401 THEN [r1 EXCEPT !.pc = "await_token", !.fetches = @ + 1]
    ELSE IF RaisesForStatus(st) THEN Raise(r1, "HTTPError", st)
    ELSE IF ~ok THEN Raise(r1, "JSONDecodeError", 0)
    ELSE Return(r1, Body)

\* _post_data / _update_data after the request: raise_for_status, then
\* json.loads.
write_result(r, st, ok) ==
    LET r1 == [r EXCEPT !.status = st] IN
    IF RaisesForStatus(st) THEN Raise(r1, "HTTPError", st)
    ELSE IF ~ok THEN Raise(r1, "JSONDecodeError", 0)
    ELSE Return(r1, Body)

\* Variant: the new page's items are put in front.
AccumulateInFront(data, more) == more \o data

\* data += formatted_response['data']
Accumulate(data, more) == data \o more

\* Variant: the offset is not advanced.
NextOffsetStuck(offset) == offset

\* offset += 100
NextOffset(offset) == offset + PageSize

\* Variant: count and data are written whatever was accumulated.
fetch_finish_always(r) ==
    LET p == r.formatted_response IN
    IF ~p.hasTotal THEN Raise(r, "KeyError", 0)
    ELSE Return(r, [p EXCEPT !.hasCount = TRUE, !.count = p.total,
                             !.hasData = TRUE, !.data = r.data])

\* Variant: the accumulated data counts as present as soon as it is not None.
fetch_finish_not_none(r) ==
    LET p == r.formatted_response IN
    IF ~r.dataNone
    THEN IF ~p.hasTotal THEN Raise(r, "KeyError", 0)
         ELSE Return(r, [p EXCEPT !.hasCount = TRUE, !.count = p.total,
                                  !.hasData = TRUE, !.data = r.data])
    ELSE Return(r, p)

\* Variant: the first page fetched is the base of the result.
fetch_finish_first_page(r) ==
    LET p == r.pages[1] IN
    IF ~r.dataNone /\ Len(r.data) > 0
    THEN IF ~p.hasTotal THEN Raise(r, "KeyError", 0)
         ELSE Return(r, [p EXCEPT !.hasCount = TRUE, !.count = p.total,
                                  !.hasData = TRUE, !.data = r.data])
    ELSE Return(r, p)

\* Variant: a last page without total gives the merged data without a count.
fetch_finish_no_total(r) ==
    LET p == r.formatted_response IN
    IF ~r.dataNone /\ Len(r.data) > 0
    THEN IF ~p.hasTotal THEN Return(r, [p EXCEPT !.hasData = TRUE, !.data = r.data])
         ELSE Return(r, [p EXCEPT !.hasCount = TRUE, !.count = p.total,
                                  !.hasData = TRUE, !.data = r.data])
    ELSE Return(r, p)

\* result = formatted_response; if data: result['count'] = result['total'];
\* result['data'] = data; return result
fetch_finish(r) ==
    LET p == r.formatted_response IN
    IF ~r.dataNone /\ Len(r.data) > 0
    THEN IF ~p.hasTotal THEN Raise(r, "KeyError", 0)
         ELSE Return(r, [p EXCEPT !.hasCount = TRUE, !.count = p.total,
                                  !.hasData = TRUE, !.data = r.data])
    ELSE Return(r, p)

\* Variant: the loop gives up after the second page.
fetch_loop_capped(r, sess, o, t, refuse) ==
    IF r.has_more /\ r.offset < PageSize
    THEN LET r1 == [r EXCEPT !.offset = NextOffset(@), !.inLoop = TRUE] IN
         IF refuse THEN Raise(r1, "TokenExpiredError", 0)
         ELSE Send("consumer", r1, sess, o, t)
    ELSE fetch_finish(r)

\* while has_more: offset += 100; response = self.session.get(...)
\* The OAuth2 session may refuse to send with an expired token (refuse).
fetch_loop(r, sess, o, t, refuse) ==
    IF r.has_more
    THEN LET r1 == [r EXCEPT !.offset = NextOffset(@), !.inLoop = TRUE] IN
         IF refuse THEN Raise(r1, "TokenExpiredError", 0)
         ELSE Send("consumer", r1, sess, o, t)
    ELSE fetch_finish(r)

\* Variant: a first page without hasMore counts as hasMore true.
fetch_first_eager(r, p) ==
    [r EXCEPT !.formatted_response = p, !.pages = Append(@, p),
              !.has_more = IF p.hasHasMore THEN p.hasMore ELSE TRUE,
              !.dataNone = ~p.hasData, !.data = p.data]

\* The page read before the loop: hasMore and data are optional.
fetch_first(r, p) ==
    [r EXCEPT !.formatted_response = p, !.pages = Append(@, p),
              !.has_more = IF p.hasHasMore THEN p.hasMore ELSE FALSE,
              !.dataNone = ~p.hasData, !.data = p.data]

\* Variant: an HTTP error on a later page ends the loop with what was fetched.
fetch_result_partial(r, st, ok, p, sess, o, t, refuse) ==
    LET r1 == [r EXCEPT !.status = st] IN
    IF RaisesForStatus(st)
    THEN IF r.inLoop THEN fetch_finish(r1) ELSE Raise(r1, "HTTPError", st)
    ELSE IF ~ok THEN Raise(r1, "JSONDecodeError", 0)
    ELSE IF ~r.inLoop THEN fetch_loop(fetch_first(r1, p), sess, o, t, refuse)
    ELSE LET r2 == [r1 EXCEPT !.formatted_response = p, !.pages = Append(@, p)] IN
         IF ~p.hasData THEN Raise(r2, "KeyError", 0)
         ELSE IF r.dataNone THEN Raise(r2, "TypeError", 0)
         ELSE IF ~p.hasHasMore
              THEN Raise([r2 EXCEPT !.data = Accumulate(@, p.data)], "KeyError", 0)
         ELSE fetch_loop([r2 EXCEPT !.data = Accumulate(@, p.data),
                                    !.has_more = p.hasMore], sess, o, t, refuse)

\* Variant: data that is still None counts as an empty list in the loop.
fetch_result_none_as_empty(r, st, ok, p, sess, o, t, refuse) ==
    LET r1 == [r EXCEPT !.status = st] IN
    IF RaisesForStatus(st) THEN Raise(r1, "HTTPError", st)
    ELSE IF ~ok THEN Raise(r1, "JSONDecodeError", 0)
    ELSE IF ~r.inLoop THEN fetch_loop(fetch_first(r1, p), sess, o, t, refuse)
    ELSE LET r2 == [r1 EXCEPT !.formatted_response = p, !.pages = Append(@, p),
                              !.dataNone = FALSE] IN
         IF ~p.hasData THEN Raise(r2, "KeyError", 0)
         ELSE IF ~p.hasHasMore
              THEN Raise([r2 EXCEPT !.data = Accumulate(@, p.data)], "KeyError", 0)
         ELSE fetch_loop([r2 EXCEPT !.data = Accumulate(@, p.data),
                                    !.has_more = p.hasMore], sess, o, t, refuse)

\* _fetch_data after a page request: raise_for_status,
\* json.loads, then the body of the loop or the code before it.
fetch_result(r, st, ok, p, sess, o, t, refuse) ==
    LET r1 == [r EXCEPT !.status = st] IN
    IF RaisesForStatus(st) THEN Raise(r1, "HTTPError", st)
    ELSE IF ~ok THEN Raise(r1, "JSONDecodeError", 0)
    ELSE IF ~r.inLoop THEN fetch_loop(fetch_first(r1, p), sess, o, t, refuse)
    ELSE LET r2 == [r1 EXCEPT !.formatted_response = p, !.pages = Append(@, p)] IN
         IF ~p.hasData THEN Raise(r2, "KeyError", 0)
         ELSE IF r.dataNone THEN Raise(r2, "TypeError", 0)
         ELSE IF ~p.hasHasMore
              THEN Raise([r2 EXCEPT !.data = Accumulate(@, p.data)], "KeyError", 0)
         ELSE fetch_loop([r2 EXCEPT !.data = Accumulate(@, p.data),
                                    !.has_more = p.hasMore],
                         sess, o, t, refuse)

\* _fetch_setup_data, transcribed from its own lines.  The page read before
\* the loop: hasMore and data are optional.
fetch_setup_first(r, p) ==
    [r EXCEPT !.formatted_response = p, !.pages = Append(@, p),
              !.has_more = IF p.hasHasMore THEN p.hasMore ELSE FALSE,
              !.dataNone = ~p.hasData, !.data = p.data]

\* result = formatted_response; if data: result['count'] = result['total'];
\* result['data'] = data; return result
fetch_setup_finish(r) ==
    LET p == r.formatted_response IN
    IF ~r.dataNone /\ Len(r.data) > 0
    THEN IF ~p.hasTotal THEN Raise(r, "KeyError", 0)
         ELSE Return(r, [p EXCEPT !.hasCount = TRUE, !.count = p.total,
                                  !.hasData = TRUE, !.data = r.data])
    ELSE Return(r, p)

\* Variant: the loop of the setup fetch asks for the same offset again.
fetch_setup_loop_same_offset(r, sess, o, t, refuse) ==
    IF r.has_more
    THEN LET r1 == [r EXCEPT !.inLoop = TRUE] IN
         IF refuse THEN Raise(r1, "TokenExpiredError", 0)
         ELSE Send("setup", r1, sess, o, t)
    ELSE fetch_setup_finish(r)

\* while has_more: offset += 100; response = self.admin_session.get(...)
fetch_setup_loop(r, sess, o, t, refuse) ==
    IF r.has_more
    THEN LET r1 == [r EXCEPT !.offset = @ + PageSize, !.inLoop = TRUE] IN
         IF refuse THEN Raise(r1, "TokenExpiredError", 0)
         ELSE Send("setup", r1, sess, o, t)
    ELSE fetch_setup_finish(r)

\* _fetch_setup_data after a page request.
fetch_setup_result(r, st, ok, p, sess, o, t, refuse) ==
    LET r1 == [r EXCEPT !.status = st] IN
    IF RaisesForStatus(st) THEN Raise(r1, "HTTPError", st)
    ELSE IF ~ok THEN Raise(r1, "JSONDecodeError", 0)
    ELSE IF ~r.inLoop
         THEN fetch_setup_loop(fetch_setup_first(r1, p), sess, o, t, refuse)
    ELSE LET r2 == [r1 EXCEPT !.formatted_response = p, !.pages = Append(@, p)] IN
         IF ~p.hasData THEN Raise(r2, "KeyError", 0)
         ELSE IF r.dataNone THEN Raise(r2, "TypeError", 0)
         ELSE IF ~p.hasHasMore
              THEN Raise([r2 EXCEPT !.data = @ \o p.data], "KeyError", 0)
         ELSE fetch_setup_loop([r2 EXCEPT !.data = @ \o p.data,
                                          !.has_more = p.hasMore],
                               sess, o, t, refuse)

\* _post_setup_data / _update_setup_data / _delete_setup_data after the
\* request: raise_for_status, then json.loads.
write_setup_result(r, st, ok) ==
    LET r1 == [r EXCEPT !.status = st] IN
    IF RaisesForStatus(st) THEN Raise(r1, "HTTPError", st)
    ELSE IF ~ok THEN Raise(r1, "JSONDecodeError", 0)
    ELSE Return(r1, Body)

\* oauthlib refuses to add a token whose expires_at lies in the past.
MayRefuse(r, sess, o, t) ==
    /\ sess[r.sess] # None
    /\ o[sess[r.sess]].set
    /\ o[sess[r.sess]].expires_at < t

\* Variant: an error answer to a write request makes the helper drop its
\* session.
WriteResponseDropsSession(t, st, ok) ==
    /\ th[t].pc = "await_resp"
    /\ th[t].op \in WriteOps
    /\ th' = [th EXCEPT ![t] = IF SessOf(th[t].op) = "consumer"
                                THEN write_result(th[t], st, ok)
                                ELSE write_setup_result(th[t], st, ok)]
    /\ session' = IF RaisesForStatus(st)
                  THEN [session EXCEPT ![SessOf(th[t].op)] = None]
                  ELSE session
    /\ objs' = Collect(objs, session', th')
    /\ UNCHANGED <<now, client, endpoints, lim, lastFetch>>

\* The resource endpoint answers a write request.
WriteResponse(t, st, ok) ==
    /\ th[t].pc = "await_resp"
    /\ th[t].op \in WriteOps
    /\ th' = [th EXCEPT ![t] = IF SessOf(th[t].op) = "consumer"
                                THEN write_result(th[t], st, ok)
                                ELSE write_setup_result(th[t], st, ok)]
    /\ UNCHANGED <<now, client, endpoints, lim, session, objs, lastFetch>>

\* The resource endpoint answers a page request.
FetchResponse(t, st, ok, p, refuse) ==
    /\ th[t].pc = "await_resp"
    /\ th[t].op \in FetchOps
    /\ refuse => MayRefuse(th[t], session, objs, now)
    /\ th' = [th EXCEPT ![t] =
                IF th[t].op = "fetch_data"
                THEN fetch_result(th[t], st, ok, p, session, objs, now, refuse)
                ELSE fetch_setup_result(th[t], st, ok, p, session, objs, now, refuse)]
    /\ UNCHANGED <<now, client, endpoints, lim, session, objs, lastFetch>>

\* ---------------------------------------------------------- specifications
Callers == {"t1"}

Next ==
    \/ Tick
    \/ \E t \in Callers : Construct(t, "sandbox")
    \/ \E t \in Callers, op \in Ops : Call(t, op)
    \/ \E t \in Callers, ttl \in 1..MaxTTL : TokenIssued(t, ttl)
    \/ \E t \in Callers : TokenFailed(t)
    \/ \E t \in Callers, st \in Statuses, ok \in BOOLEAN : WriteResponse(t, st, ok)
    \/ \E t \in Callers, st \in Statuses, ok \in BOOLEAN, refuse \in BOOLEAN :
          \E p \in ServerPages(Len(th[t].pages)) : FetchResponse(t, st, ok, p, refuse)

\* One caller at a time, time passing, both sessions, all helpers.
Spec == Init /\ [][Next]_vars

\* A constructed client whose tokens stay valid: the paginated fetch alone,
\* against a server with more and longer pages.
InitFetch ==
    /\ now = 0
    /\ client = "ready"
    /\ endpoints = Endpoints("sandbox")
    /\ lim = [pages |-> MaxPages, lens |-> (-1)..MaxPageLen, totals |-> BOOLEAN]
    /\ session = [s \in Sessions |-> IF s = "consumer" THEN 1 ELSE 2]
    /\ objs = [i \in ObjIds |-> IF i \in {1, 2} THEN Token(MaxTTL) ELSE NoToken]
    /\ lastFetch = [s \in Sessions |-> [state |-> "ok", tok |-> Token(MaxTTL), url |-> SANDBOX_TOKEN_URL]]
    /\ th = [t \in Threads |->
               IF t \in Callers
               THEN [IdleThread EXCEPT !.op = "ctor", !.sess = "setup",
                                       !.checked = TRUE, !.fetches = 2,
                                       !.issued = Token(MaxTTL),
                                       !.outcome = "returned"]
               ELSE IdleThread]

NextFetch ==
    \/ \E t \in Callers, op \in FetchOps : Call(t, op)
    \/ \E t \in Callers, st \in Statuses, ok \in BOOLEAN :
          \E p \in ServerPages(Len(th[t].pages)) : FetchResponse(t, st, ok, p, FALSE)

SpecFetch == InitFetch /\ [][NextFetch]_vars

\* A constructed client whose tokens stay valid, driven through the public
\* operations that take date arguments; one page per fetch.
InitApi ==
    /\ now = 0
    /\ client = "ready"
    /\ endpoints = Endpoints("sandbox")
    /\ lim = [pages |-> 1, lens |-> {TimedPageLen}, totals |-> {TRUE}]
    /\ session = [s \in Sessions |-> IF s = "consumer" THEN 1 ELSE 2]
    /\ objs = [i \in ObjIds |-> IF i \in {1, 2} THEN Token(MaxTTL) ELSE NoToken]
    /\ lastFetch = [s \in Sessions |-> [state |-> "ok", tok |-> Token(MaxTTL), url |-> SANDBOX_TOKEN_URL]]
    /\ th = [t \in Threads |->
               IF t \in Callers
               THEN [IdleThread EXCEPT !.op = "ctor", !.sess = "setup",
                                       !.checked = TRUE, !.fetches = 2,
                                       !.issued = Token(MaxTTL),
                                       !.outcome = "returned"]
               ELSE IdleThread]

NextApi ==
    \/ \E t \in Callers, api \in Operations, a1 \in ArgValues, a2 \in ArgValues,
            opt \in BOOLEAN :
          PublicCall(t, api, a1, a2, opt)
    \/ \E t \in Callers, st \in Statuses, ok \in BOOLEAN : WriteResponse(t, st, ok)
    \/ \E t \in Callers, st \in Statuses, ok \in BOOLEAN :
          \E p \in ServerPages(Len(th[t].pages)) : FetchResponse(t, st, ok, p, FALSE)

SpecApi == InitApi /\ [][NextApi]_vars

\* Two callers at once on a constructed client whose tokens expire at this
\* instant, each posting through either session.
ConcOps == {"post_data", "post_setup_data"}

InitConc ==
    /\ now = 0
    /\ client = "ready"
    /\ endpoints = Endpoints("sandbox")
    /\ lim = [pages |-> 1, lens |-> {TimedPageLen}, totals |-> {TRUE}]
    /\ session = [s \in Sessions |-> IF s = "consumer" THEN 1 ELSE 2]
    /\ objs = [i \in ObjIds |-> IF i \in {1, 2} THEN Token(0) ELSE NoToken]
    /\ lastFetch = [s \in Sessions |-> [state |-> "ok", tok |-> Token(0), url |-> SANDBOX_TOKEN_URL]]
    /\ th = [t \in Threads |-> IdleThread]

NextConc ==
    \/ \E t \in Threads, op \in ConcOps : Call(t, op)
    \/ \E t \in Threads : TokenIssued(t, MaxTTL)
    \/ \E t \in Threads : TokenFailed(t)
    \/ \E t \in Threads : WriteResponse(t, 200, TRUE)

SpecConc == InitConc /\ [][NextConc]_vars

\* A client constructed for any environment value, then used through its
\* public operations.
NextEnv ==
    \/ \E t \in Callers, environment \in Environments : Construct(t, environment)
    \/ \E t \in Callers : TokenIssued(t, MaxTTL)
    \/ \E t \in Callers : TokenFailed(t)
    \/ \E t \in Callers, api \in Operations :
          PublicCall(t, api, IF api \in PublicOps THEN StrValue("next tuesday") ELSE NoneValue,
                     IF api \in PublicOps \ {"create_resource", "update_resource"}
                     THEN StrValue("next tuesday") ELSE NoneValue, FALSE)
    \/ \E t \in Callers, st \in Statuses, ok \in BOOLEAN : WriteResponse(t, st, ok)
    \/ \E t \in Callers, st \in Statuses, ok \in BOOLEAN :
          \E p \in ServerPages(Len(th[t].pages)) : FetchResponse(t, st, ok, p, FALSE)

SpecEnv == Init /\ [][NextEnv]_vars

\* ------------------------------------------------------------------ claims
Running(r) == r.op \in Ops

Finished(r) == r.op \in Ops /\ r.pc = "idle" /\ r.outcome # "none"

EntryUsable(r) == r.entry.tok.set /\ r.entry.tok.expires_at > r.entry.at

\* C1: a call that finds its session holding a token with expires_at > now
\* makes no token-endpoint call, and sends its request at once on the same
\* session object with the same token; this holds for every such call.
C1_ValidTokenNoFetch ==
    \A t \in Threads :
        LET r == th[t] IN
        (Running(r) /\ EntryUsable(r)) =>
            /\ r.fetches = 0
            /\ r.pc # "await_token"
            /\ r.reqs # <<>>
            /\ r.reqs[1].obj = r.entry.obj
            /\ r.reqs[1].tok = r.entry.tok
            /\ r.reqs[1].sentAt = r.entry.at
            /\ r.reqs[1].checked

\* A second call in a row inside the validity window, after time has passed.
C1_Witness ==
    LET r == th["t1"] IN
    /\ r.op = "post_setup_data"
    /\ EntryUsable(r)
    /\ r.entry.at >= 1
    /\ r.entry.last = "ok"
    /\ r.fetches = 0
    /\ r.pc = "await_resp"

\* C2: a call that finds the token absent or with expires_at <= now (equality
\* included) makes exactly one token-endpoint call, and when that call
\* succeeds the session holds the token just issued, not the old one.
C2_ExpiredTokenOneFetch ==
    \A t \in Threads :
        LET r == th[t] IN
        (Running(r) /\ ~EntryUsable(r)) =>
            /\ r.fetches = 1
            /\ (r.pc # "await_token" /\ ~r.tokenFailed) =>
                  /\ r.issued.set
                  /\ r.reqs # <<>>
                  /\ r.reqs[1].tok = r.issued
                  /\ r.reqs[1].tok # r.entry.tok
                  /\ r.reqs[1].obj # r.entry.obj
                  /\ r.reqs[1].fetches = 1

\* The boundary instant: the old token expires exactly now and is replaced.
C2_Witness ==
    LET r == th["t1"] IN
    /\ Running(r)
    /\ r.entry.tok.set
    /\ r.entry.tok.expires_at = r.entry.at
    /\ r.fetches = 1
    /\ r.pc = "await_resp"
    /\ r.reqs[1].tok = r.issued
    /\ r.issued.expires_at > r.entry.at

\* C3: no resource request, page requests after the first included, is sent
\* while the session's token has expires_at <= now.
C3_NoRequestWithExpiredToken ==
    \A t \in Threads :
        \A i \in 1..Len(th[t].reqs) :
            LET q == th[t].reqs[i] IN
            q.tok.set /\ q.tok.expires_at > q.sentAt

\* C4: a failed token fetch raises to the caller and leaves the session with
\* no token; the next call on that session fetches a token again.
C4_FailedFetchLeavesNoToken ==
    /\ \A s \in Sessions :
          lastFetch[s].state = "failed" =>
              /\ session[s] # None
              /\ objs[session[s]] = NoToken
    /\ \A t \in Threads :
          LET r == th[t] IN
          /\ r.tokenFailed =>
                /\ r.pc = "idle"
                /\ r.outcome = "error"
                /\ r.err = "AuthenticationError"
          /\ (Running(r) /\ r.entry.last = "failed") =>
                /\ r.fetches = 1
                /\ ~r.entry.tok.set

\* The call after a failed fetch waits for the token endpoint again.
C4_Witness ==
    LET r == th["t1"] IN
    /\ Running(r)
    /\ r.entry.last = "failed"
    /\ r.pc = "await_token"
    /\ r.fetches = 1

\* C5: when the token fetch of a helper call fails, that call has made
\* exactly one token-fetch attempt and no resource request, and it is over.
C5_FailedFetchNoRetryNoRequest ==
    \A t \in Threads :
        LET r == th[t] IN
        (Running(r) /\ r.tokenFailed) =>
            /\ r.fetches = 1
            /\ r.reqs = <<>>
            /\ r.pc = "idle"
            /\ r.outcome = "error"

C5_Witness ==
    LET r == th["t1"] IN
    /\ r.op = "fetch_data"
    /\ r.tokenFailed
    /\ r.entry.tok.set
    /\ r.reqs = <<>>

\* C6: a write helper sends exactly one resource request, right after the
\* validity check; whatever the answer, it sends no second request and
\* makes no token fetch, and an error status ends it with an exception.
C6_WriteSendsOneRequest ==
    \A t \in Threads :
        LET r == th[t] IN
        (r.op \in WriteOps /\ ~r.tokenFailed /\ r.pc # "await_token") =>
            /\ Len(r.reqs) = 1
            /\ r.reqs[1].checked
            /\ r.reqs[1].method # "GET"
            /\ r.fetches = r.reqs[1].fetches
            /\ r.pc \in {"await_resp", "idle"}
            /\ r.pc = "idle" => r.outcome # "none"
            /\ (r.pc = "idle" /\ r.status \in {401, 500}) =>
                  /\ r.outcome = "error"
                  /\ r.err = "HTTPError"

\* A write answered 401: over, with one request and no token fetch.
C6_Witness ==
    LET r == th["t1"] IN
    /\ r.op = "update_setup_data"
    /\ r.pc = "idle"
    /\ r.status = 401
    /\ r.outcome = "error"
    /\ r.fetches = 0
    /\ Len(r.reqs) = 1

FetchOver(r) == r.op \in FetchOps /\ r.pc = "idle" /\ r.outcome # "none"

\* Every request of the call was answered with a decoded page.
AllAnswered(r) ==
    /\ r.err \notin {"AuthenticationError", "HTTPError", "JSONDecodeError",
                     "TokenExpiredError"}
    /\ Len(r.pages) = Len(r.reqs)

PageEnds(p) == ~(p.hasHasMore /\ p.hasMore)

\* The k-th request (k = 0..) is a GET with limit=100 and offset=100*k.
OffsetsInOrder(r) ==
    \A i \in 1..Len(r.reqs) :
        /\ r.reqs[i].method = "GET"
        /\ r.reqs[i].limit = 100
        /\ r.reqs[i].offset = 100 * (i - 1)

\* The fetch went as far as the first page with hasMore false or absent,
\* and no further.
StopsAtFirstEnd(r) ==
    /\ Len(r.pages) >= 1
    /\ PageEnds(r.pages[Len(r.pages)])
    /\ \A i \in 1..(Len(r.pages) - 1) : ~PageEnds(r.pages[i])

RECURSIVE ConcatData(_)
ConcatData(ps) ==
    IF ps = <<>> THEN <<>>
    ELSE ConcatData(SubSeq(ps, 1, Len(ps) - 1)) \o ps[Len(ps)].data

\* C8 as stated: whatever the pages hold, a fetch whose requests are all
\* answered issues one request per page up to the first page with hasMore
\* false or absent, at offsets 0, 100, 200, ...
C8_RequestsUpToFirstEnd ==
    \A t \in Threads :
        LET r == th[t] IN
        (FetchOver(r) /\ AllAnswered(r)) => (OffsetsInOrder(r) /\ StopsAtFirstEnd(r))

\* C8 amended: the requests of a fetch are GETs with limit=100 at offsets
\* 0, 100, 200, ... in this order; when all are answered and every page that
\* says hasMore carries a data field, the fetch stops exactly at the first
\* page with hasMore false or absent (after one request when that is page 0).
C8_RequestsWhenPagesCarryData ==
    \A t \in Threads :
        LET r == th[t] IN
        /\ r.op \in FetchOps => OffsetsInOrder(r)
        /\ (FetchOver(r) /\ AllAnswered(r)
              /\ \A i \in 1..Len(r.pages) : ~PageEnds(r.pages[i]) => r.pages[i].hasData)
           => StopsAtFirstEnd(r)
        /\ (FetchOver(r) /\ AllAnswered(r) /\ PageEnds(r.pages[1])) => Len(r.reqs) = 1

\* Three pages, three requests, the fetch returned.
C8_Witness ==
    LET r == th["t1"] IN
    /\ FetchOver(r)
    /\ r.outcome = "returned"
    /\ Len(r.reqs) = 3
    /\ r.reqs[3].offset = 200
    /\ StopsAtFirstEnd(r)

\* C9: a fetch that returns with accumulated data returns its last page, with
\* data replaced by all pages' data in fetch order and count set to that
\* page's total.
C9_ResultIsLastPageWithAllData ==
    \A t \in Threads :
        LET r == th[t]
            last == r.pages[Len(r.pages)]
        IN
        (FetchOver(r) /\ r.outcome = "returned" /\ ConcatData(r.pages) # <<>>) =>
            /\ last.hasTotal
            /\ r.result = [last EXCEPT !.hasData = TRUE, !.data = ConcatData(r.pages),
                                       !.hasCount = TRUE, !.count = last.total]

\* Three pages with two, one and two items, merged in order.
C9_Witness ==
    LET r == th["t1"] IN
    /\ FetchOver(r)
    /\ r.outcome = "returned"
    /\ Len(r.pages) = 3
    /\ r.result.data = <<11, 12, 21, 31, 32>>
    /\ r.result.count = 52
    /\ r.result.url = 3

\* C10: a single page with no data field and hasMore false or absent is
\* returned as it came: no count and no data field are added.
C10_NoDataPageReturnedUnmodified ==
    \A t \in Threads :
        LET r == th[t] IN
        (FetchOver(r) /\ AllAnswered(r) /\ Len(r.pages) = 1
            /\ ~r.pages[1].hasData /\ PageEnds(r.pages[1])) =>
            /\ r.outcome = "returned"
            /\ r.result = r.pages[1]
            /\ ~r.result.hasCount
            /\ ~r.result.hasData

\* A page with a total but no data and no hasMore.
C10_Witness ==
    LET r == th["t1"] IN
    /\ FetchOver(r)
    /\ r.outcome = "returned"
    /\ Len(r.pages) = 1
    /\ ~r.pages[1].hasData
    /\ ~r.pages[1].hasHasMore
    /\ r.pages[1].hasTotal
    /\ r.result = r.pages[1]

SomePageHasData(r) == \E i \in 1..Len(r.pages) : r.pages[i].hasData

LastPage(r) == r.pages[Len(r.pages)]

\* C11 as stated: whenever some fetched page has a data field, an empty list
\* included, the returned result carries count = the last page's total.
C11_CountWheneverDataField ==
    \A t \in Threads :
        LET r == th[t] IN
        (FetchOver(r) /\ r.outcome = "returned" /\ SomePageHasData(r)) =>
            /\ r.result.hasCount
            /\ r.result.count = LastPage(r).total

\* C11: a returned result carries count = the last page's total exactly when
\* the fetched pages contributed at least one item; when every page's data is
\* absent or an empty list the result is the last page as it came, no count.
C11_CountWhenItemsAccumulated ==
    \A t \in Threads :
        LET r == th[t] IN
        (FetchOver(r) /\ r.outcome = "returned") =>
            /\ ConcatData(r.pages) # <<>> =>
                  (r.result.hasCount /\ LastPage(r).hasTotal
                     /\ r.result.count = LastPage(r).total)
            /\ ConcatData(r.pages) = <<>> =>
                  (r.result = LastPage(r) /\ ~r.result.hasCount)

\* A single page {data: [], total: 50}: returned as it came, without count.
C11_Witness ==
    LET r == th["t1"] IN
    /\ FetchOver(r)
    /\ r.outcome = "returned"
    /\ Len(r.pages) = 1
    /\ r.pages[1].hasData
    /\ r.pages[1].data = <<>>
    /\ r.pages[1].hasTotal
    /\ r.result = r.pages[1]
    /\ ~r.result.hasCount

\* The last request of the call was answered with an error status or with a
\* body that is not JSON.
PageFailed(r) ==
    /\ r.reqs # <<>>
    /\ Len(r.pages) = Len(r.reqs) - 1
    /\ r.pc = "idle"
    /\ (RaisesForStatus(r.status) \/ r.err = "JSONDecodeError")

\* C12: when the request for page k (k >= 0) is answered with an HTTP error or
\* an undecodable body, the fetch raises that error (an HTTP error carries the
\* status), returns nothing of pages 0..k-1, and the request for page k is
\* the last one of the call.
C12_FailingPageAbortsFetch ==
    \A t \in Threads :
        LET r == th[t] IN
        (r.op \in FetchOps /\ PageFailed(r)) =>
            /\ r.outcome = "error"
            /\ r.err \in {"HTTPError", "JSONDecodeError"}
            /\ r.err = "HTTPError" <=> RaisesForStatus(r.status)
            /\ r.err = "HTTPError" => r.errStatus = r.status
            /\ r.result = NoPage
            /\ r.reqs[Len(r.reqs)].offset = PageSize * Len(r.pages)

\* Two pages fetched, the third request is answered 500.
C12_Witness ==
    LET r == th["t1"] IN
    /\ r.op \in FetchOps
    /\ PageFailed(r)
    /\ Len(r.pages) = 2
    /\ Len(r.reqs) = 3
    /\ r.pages[1].data # <<>>
    /\ r.err = "HTTPError"
    /\ r.errStatus = 500

WellFormed(p) == p.hasData /\ p.hasTotal

\* C13: a fetch whose requests are all answered returns a result once a page
\* has hasMore false or no hasMore field, be it the first page or a page
\* fetched inside the loop.  Stated for pages that all carry data and total.
C13_EndsAtPageWithoutMore ==
    \A t \in Threads :
        LET r == th[t] IN
        (FetchOver(r) /\ AllAnswered(r) /\ PageEnds(LastPage(r))
            /\ \A i \in 1..Len(r.pages) : WellFormed(r.pages[i])) =>
            r.outcome = "returned"

\* C14: the number of pages does not end a fetch.  A fetch returns only when
\* its last page has hasMore false or absent; while its requests are answered
\* with pages that carry data and say hasMore true it is never over, and the
\* request in flight is the one for the next offset, however many pages came
\* before.
C14_OnlyTheServerEndsTheLoop ==
    \A t \in Threads :
        LET r == th[t] IN
        /\ (FetchOver(r) /\ r.outcome = "returned") => PageEnds(LastPage(r))
        /\ (FetchOver(r) /\ AllAnswered(r)
              /\ \A i \in 1..Len(r.pages) : r.pages[i].hasData)
           => PageEnds(LastPage(r))
        /\ (r.op \in FetchOps /\ r.pc = "await_resp") =>
              /\ \A i \in 1..Len(r.pages) : ~PageEnds(r.pages[i])
              /\ Len(r.reqs) = Len(r.pages) + 1
              /\ r.reqs[Len(r.reqs)].offset = PageSize * Len(r.pages)

\* Two pages said hasMore true; the third request is in flight.
C14_Witness ==
    LET r == th["t1"] IN
    /\ r.op \in FetchOps
    /\ r.pc = "await_resp"
    /\ Len(r.pages) = 2
    /\ r.pages[2].hasMore
    /\ Len(r.reqs) = 3
    /\ r.reqs[3].offset = 200

\* Requests of the call that have no answer yet.
Outstanding(r) == IF r.pc = "await_resp" THEN 1 ELSE 0

\* C15: a fetch never has more than one page request without an answer, and
\* the request for page N+1 exists only when page N was received with status
\* below 400, decoded, and seen to say hasMore true.
C15_PagesRequestedOneByOne ==
    \A t \in Threads :
        LET r == th[t] IN
        r.op \in FetchOps =>
            /\ Outstanding(r) <= 1
            /\ Len(r.reqs) <= Len(r.pages) + 1
            /\ Outstanding(r) = 1 => Len(r.reqs) = Len(r.pages) + 1
            /\ \A i \in 2..Len(r.reqs) :
                  /\ i - 1 <= Len(r.pages)
                  /\ r.pages[i - 1].hasHasMore
                  /\ r.pages[i - 1].hasMore
                  /\ r.reqs[i].offset = r.reqs[i - 1].offset + PageSize

\* The second request is in flight after a first page that said hasMore true.
C15_Witness ==
    LET r == th["t1"] IN
    /\ r.op \in FetchOps
    /\ r.pc = "await_resp"
    /\ Len(r.reqs) = 2
    /\ Len(r.pages) = 1
    /\ r.pages[1].hasMore

\* The top-level fields of a page other than data and count.
OtherFields(p) ==
    [hasHasMore |-> p.hasHasMore, hasMore |-> p.hasMore,
     hasTotal |-> p.hasTotal, total |-> p.total, url |-> p.url]

\* C19: in a returned result every top-level field other than data and count
\* is present or absent as in the last page and has the last page's value;
\* data and count change only when items were accumulated, and no field of
\* an earlier page other than its data shows in the result.
C19_OtherFieldsPassThrough ==
    \A t \in Threads :
        LET r == th[t] IN
        (FetchOver(r) /\ r.outcome = "returned") =>
            /\ OtherFields(r.result) = OtherFields(LastPage(r))
            /\ \A i \in 1..(Len(r.pages) - 1) :
                  /\ r.result.url # r.pages[i].url
                  /\ (r.result.hasCount /\ r.pages[i].hasTotal) =>
                        r.result.count # r.pages[i].total
            /\ ConcatData(r.pages) = <<>> =>
                  (r.result.hasData = LastPage(r).hasData
                     /\ r.result.data = LastPage(r).data
                     /\ r.result.hasCount = LastPage(r).hasCount)

\* Two pages with different url and total; the result carries the second's.
C19_Witness ==
    LET r == th["t1"] IN
    /\ FetchOver(r)
    /\ r.outcome = "returned"
    /\ Len(r.pages) = 2
    /\ r.pages[1].url = 1
    /\ r.pages[1].hasTotal
    /\ r.result.url = 2
    /\ r.result.total = 51
    /\ r.result.hasCount
    /\ r.result.hasHasMore
    /\ ~r.result.hasMore

\* The same call made through the other family of helpers.
MirrorOp(op) ==
    CASE op = "fetch_data" -> "fetch_setup_data"
      [] op = "fetch_setup_data" -> "fetch_data"
      [] op = "post_data" -> "post_setup_data"
      [] op = "post_setup_data" -> "post_data"
      [] op = "update_data" -> "update_setup_data"
      [] op = "update_setup_data" -> "update_data"
      [] OTHER -> op

MirrorSess(s) == IF s = "consumer" THEN "setup" ELSE "consumer"

Mirror(r) ==
    [r EXCEPT !.op = MirrorOp(@), !.sess = MirrorSess(@),
              !.reqs = [i \in 1..Len(@) |-> [@[i] EXCEPT !.sess = MirrorSess(@)]]]

\* The two session attributes exchanged: the same initial token state seen
\* from the other family.
SwapSessions(sess) == [s \in Sessions |-> sess[MirrorSess(s)]]

\* What the resource endpoint can answer to a page request, page shapes of
\* every kind included.
PageAnswers(k) ==
    { [st |-> 200, ok |-> TRUE, p |-> MkPage(k, hm, len, ht)] :
        hm \in {"absent", "true", "false"}, len \in (-1)..TimedPageLen,
        ht \in BOOLEAN }
    \cup { [st |-> st, ok |-> ok, p |-> NoPage] : st \in Statuses, ok \in BOOLEAN }

\* A fetch in the state it is in, and as it would be had its first page come
\* without a data field.
FetchStates(r) ==
    {r} \cup (IF r.inLoop THEN {[r EXCEPT !.dataNone = TRUE, !.data = <<>>]} ELSE {})

SetSessionAgrees(r, sess, o, thr, t) ==
    LET c == set_session(r, sess, o, thr, t)
        a == set_setup_session(Mirror(r), SwapSessions(sess), o, thr, t)
    IN /\ c.valid = a.valid
       /\ c.objs = a.objs
       /\ SwapSessions(c.session) = a.session
       /\ Mirror(c.r) = a.r

\* C20: from the same token state and for the same answer of the server, a
\* helper of one family and its counterpart of the other family take the same
\* step: the same request is sent, on the session of its own family, or the
\* same result is returned, or the same error is raised.  This holds at every
\* step of every call, hence for whole runs: for _fetch_data and
\* _fetch_setup_data, _post_data and _post_setup_data, _update_data and
\* _update_setup_data, _set_session and _set_setup_session.
C20_VariantsTakeSameSteps ==
    \A t \in Threads :
        LET r == th[t] IN
        /\ (r.pc = "await_resp" /\ r.op = "fetch_data") =>
              \A q \in FetchStates(r), a \in PageAnswers(Len(r.pages)), refuse \in BOOLEAN :
                 Mirror(fetch_result(q, a.st, a.ok, a.p, session, objs, now, refuse))
                   = fetch_setup_result(Mirror(q), a.st, a.ok, a.p,
                                        SwapSessions(session), objs, now, refuse)
        /\ (r.pc = "await_resp" /\ r.op = "fetch_setup_data") =>
              \A q \in FetchStates(r), a \in PageAnswers(Len(r.pages)), refuse \in BOOLEAN :
                 Mirror(fetch_setup_result(q, a.st, a.ok, a.p, session, objs, now, refuse))
                   = fetch_result(Mirror(q), a.st, a.ok, a.p,
                                  SwapSessions(session), objs, now, refuse)
        /\ (r.pc = "await_resp" /\ r.op \in {"post_data", "update_data"}) =>
              \A st \in Statuses, ok \in BOOLEAN :
                 Mirror(write_result(r, st, ok)) = write_setup_result(Mirror(r), st, ok)
        /\ (r.pc = "await_resp" /\ r.op \in {"post_setup_data", "update_setup_data"}) =>
              \A st \in Statuses, ok \in BOOLEAN :
                 Mirror(write_setup_result(r, st, ok)) = write_result(Mirror(r), st, ok)
        /\ (r.pc = "idle" /\ client = "ready") =>
              \A op \in {"fetch_data", "post_data", "update_data"} :
                 SetSessionAgrees([IdleThread EXCEPT !.op = op], session, objs, th, now)

\* A setup fetch waits for its second page; for the answer that ends it, the
\* consumer fetch in the mirrored state returns the same merged result.
C20_Witness ==
    LET r == th["t1"]
        p == MkPage(1, "false", TimedPageLen, TRUE)
        a == fetch_setup_result(r, 200, TRUE, p, session, objs, now, FALSE)
        c == fetch_result(Mirror(r), 200, TRUE, p, SwapSessions(session), objs, now, FALSE)
    IN /\ r.op = "fetch_setup_data"
       /\ r.pc = "await_resp"
       /\ Len(r.pages) = 1
       /\ r.reqs[2].sess = "setup"
       /\ a.outcome = "returned"
       /\ Len(a.result.data) = 2
       /\ c.result = a.result
       /\ c.reqs[2].sess = "consumer"
       /\ c.reqs[2].offset = a.reqs[2].offset

\* A supplied value that is neither a date, a datetime nor a string.
WrongType(a) == a.kind \in {"number", "zero"}

\* C18: a public operation given a date argument that is neither of a temporal
\* type nor a string raises TypeError before any network call: the call has
\* fetched no token and sent no request.
C18_WrongTypeRaisesBeforeNetwork ==
    \A t \in Threads :
        LET r == th[t] IN
        (r.api \in PublicOps /\ \E i \in 1..2 : WrongType(r.args[i])) =>
            /\ r.outcome = "error"
            /\ r.err = "TypeError"
            /\ r.fetches = 0
            /\ r.reqs = <<>>

\* Callers that are inside fetch_token for session s.
Refreshing(s) == {t \in Threads : th[t].pc = "await_token" /\ th[t].sess = s}

\* C17: callers that find the same session expired do not refresh it at the
\* same time: at most one token fetch per session is in flight, and the
\* session object a fetch is filling is still the one the session attribute
\* names.
C17_RefreshIsSerialized ==
    \A s \in Sessions :
        /\ Cardinality(Refreshing(s)) <= 1
        /\ \A t \in Refreshing(s) : session[s] = th[t].obj

\* The session object of s, the token it holds, and the objects that token
\* fetches for s are filling.
OwnedBy(s) ==
    {session[s]} \cup {th[t].obj : t \in Refreshing(s)}

\* The validity check of one session gives the same answer whatever the other
\* session holds.
ChecksOwnSessionOnly ==
    LET r0 == [IdleThread EXCEPT !.op = "post_data"]
        noSetup == [session EXCEPT !["setup"] = None]
        noConsumer == [session EXCEPT !["consumer"] = None]
    IN /\ set_session(r0, session, objs, th, now).valid
            = set_session(r0, noSetup, objs, th, now).valid
       /\ set_setup_session(r0, session, objs, th, now).valid
            = set_setup_session(r0, noConsumer, objs, th, now).valid

\* A step of a call made through one session leaves the other session as it
\* was: its attribute, the objects it owns and their tokens, and the record of
\* its last token fetch.
OtherSessionUntouched ==
    \A t \in Threads :
        th'[t] # th[t] =>
            LET other == MirrorSess(SessOf(th'[t].op)) IN
            /\ session'[other] = session[other]
            /\ lastFetch'[other] = lastFetch[other]
            /\ \A i \in OwnedBy(other) \ {None} : objs'[i] = objs[i]

\* C16: the two sessions never name the same session object, a session's
\* validity check reads that session only, and no step of an operation on one
\* session changes the other session's object, token or token-fetch record;
\* so the token fetches of each session are those of that session run alone.
C16_SessionsIndependent ==
    /\ [](session["consumer"] # session["setup"] /\ ChecksOwnSessionOnly)
    /\ [][OtherSessionUntouched]_vars

\* One caller refreshes the consumer session while the other refreshes the
\* setup session.
C16_Witness ==
    /\ th["t1"].pc = "await_token"
    /\ th["t1"].sess = "consumer"
    /\ th["t2"].pc = "await_token"
    /\ th["t2"].sess = "setup"
    /\ th["t1"].obj # th["t2"].obj
    /\ session["consumer"] = th["t1"].obj
    /\ session["setup"] = th["t2"].obj

\* C29: when every request of a fetch was answered with a page, items were
\* accumulated and the last page fetched has no total field, the fetch ends
\* with an error and returns nothing; at the end of the loop the error is the
\* KeyError of result['total'].
C29_MissingTotalRaises ==
    \A t \in Threads :
        LET r == th[t] IN
        (FetchOver(r) /\ AllAnswered(r) /\ ConcatData(r.pages) # <<>>
            /\ ~LastPage(r).hasTotal) =>
            /\ r.outcome = "error"
            /\ r.result = NoPage
            /\ (PageEnds(LastPage(r)) /\ LastPage(r).hasHasMore
                  /\ \A i \in 1..Len(r.pages) : r.pages[i].hasData)
               => r.err = "KeyError"

\* Two pages with items, the second with hasMore false and no total.
C29_Witness ==
    LET r == th["t1"] IN
    /\ FetchOver(r)
    /\ Len(r.pages) = 2
    /\ r.pages[1].data # <<>>
    /\ r.pages[2].hasData
    /\ r.pages[2].hasHasMore
    /\ ~r.pages[2].hasMore
    /\ ~r.pages[2].hasTotal
    /\ r.err = "KeyError"
    /\ r.result = NoPage

\* The first page said hasMore true and had no data field.
FirstPageOpen(r) ==
    /\ r.op \in FetchOps
    /\ Len(r.pages) >= 1
    /\ r.pages[1].hasHasMore /\ r.pages[1].hasMore
    /\ ~r.pages[1].hasData

\* A page fetched inside the loop had no data field.
LoopPageWithoutData(r) ==
    /\ r.op \in FetchOps
    /\ \E i \in 2..Len(r.pages) : ~r.pages[i].hasData

\* C30 as stated: in both cases the fetch raises after the request of the
\* page that lacks data, and no request follows that page.
C30_RaisesAtPageWithoutData ==
    \A t \in Threads :
        LET r == th[t] IN
        /\ (FirstPageOpen(r) /\ FetchOver(r)) =>
              (r.outcome = "error" /\ r.result = NoPage /\ Len(r.reqs) = 1)
        /\ (LoopPageWithoutData(r) /\ FetchOver(r)) =>
              (r.outcome = "error" /\ r.result = NoPage
                 /\ ~LastPage(r).hasData /\ Len(r.reqs) = Len(r.pages))

\* C30: a loop page without a data field ends the fetch at once with KeyError,
\* no result and no further request.  A first page with hasMore true and no
\* data field does not: the request for offset 100 is sent, and the fetch
\* ends with an error and no result when that request is answered (TypeError
\* if the page has data, KeyError if it has none), with no third request.
C30_ContinuationNeedsData ==
    \A t \in Threads :
        LET r == th[t] IN
        /\ LoopPageWithoutData(r) =>
              /\ FetchOver(r) /\ r.outcome = "error" /\ r.result = NoPage
              /\ r.err = "KeyError"
              /\ ~LastPage(r).hasData
              /\ Len(r.reqs) = Len(r.pages)
        /\ FirstPageOpen(r) =>
              /\ Len(r.reqs) = 2
              /\ r.reqs[2].offset = PageSize
              /\ r.pc = "await_resp" <=> Len(r.pages) = 1 /\ r.outcome = "none"
              /\ r.pc = "idle" =>
                    /\ r.outcome = "error" /\ r.result = NoPage
                    /\ Len(r.pages) = 2 =>
                          r.err = IF r.pages[2].hasData THEN "TypeError" ELSE "KeyError"

\* First page {hasMore: true} without data, second page with data: TypeError
\* after two requests.
C30_Witness ==
    LET r == th["t1"] IN
    /\ FirstPageOpen(r)
    /\ FetchOver(r)
    /\ Len(r.pages) = 2
    /\ r.pages[2].hasData
    /\ Len(r.reqs) = 2
    /\ r.err = "TypeError"
    /\ r.result = NoPage

\* The call of r ended because a resource request failed.
RequestFailed(r) ==
    /\ r.op \in Ops
    /\ r.pc = "idle"
    /\ r.outcome = "error"
    /\ r.err \in {"HTTPError", "JSONDecodeError"}

\* The step in which a resource request of t fails changes no session.
FailureKeepsSessions(t) ==
    (th[t].pc = "await_resp" /\ RequestFailed(th'[t])) =>
        UNCHANGED <<session, objs, lastFetch>>

\* The call that follows a failed request, made while the token of its
\* session is still valid, fetches no token and sends its request with the
\* token the session held, which is the token of the failed request when
\* both used the same session.
NextCallReusesToken(t) ==
    LET r == th[t]
        n == th'[t]
        s == SessOf(n.op)
    IN (RequestFailed(r) /\ n # r /\ SessionValid(session[s], objs, now)) =>
          /\ n.fetches = 0
          /\ n.pc = "await_resp"
          /\ session'[s] = session[s]
          /\ n.reqs[1].obj = session[s]
          /\ n.reqs[1].tok = objs[session[s]]
          /\ r.reqs[Len(r.reqs)].sess = s =>
                /\ n.reqs[1].tok = r.reqs[Len(r.reqs)].tok
                /\ n.reqs[1].obj = r.reqs[Len(r.reqs)].obj

\* C28: a resource request that fails with an HTTP error or an undecodable
\* body, in a write or on any page of a fetch, leaves both sessions, their
\* objects and tokens as they were, and the next call on a session whose token
\* is still valid fetches no token and sends its request with that token.
C28_FailedRequestKeepsTokens ==
    [][\A t \in Threads : FailureKeepsSessions(t) /\ NextCallReusesToken(t)]_vars

\* A call made after time has passed failed on its request; the session still
\* holds the valid token that request carried.
C28_Witness ==
    LET r == th["t1"] IN
    /\ RequestFailed(r)
    /\ r.err = "HTTPError"
    /\ r.entry.at >= 1
    /\ r.fetches = 0
    /\ session[r.sess] = r.reqs[1].obj
    /\ objs[session[r.sess]] = r.reqs[1].tok
    /\ SessionValid(session[r.sess], objs, now)

HoldsToken(s) == session[s] # None /\ objs[session[s]].set

\* C27: the constructor fetches the consumer token, then the setup token, and
\* returns a client only after both: on return it made exactly two fetches and
\* both sessions hold a token.  A failed fetch makes it raise and no client
\* exists; when the consumer fetch fails the setup session is never touched.
C27_ConstructionIsEager ==
    \A t \in Threads :
        LET r == th[t] IN
        /\ client = "failed" =>
              \A u \in Threads : th[u].op \in {"none", "ctor"} /\ th[u].reqs = <<>>
        /\ (r.op = "ctor" /\ r.pc = "await_token") =>
              /\ client = "new"
              /\ r.sess = "consumer" =>
                    (r.fetches = 1 /\ session["setup"] = None
                       /\ lastFetch["setup"].state = "none")
              /\ r.sess = "setup" =>
                    (r.fetches = 2 /\ HoldsToken("consumer")
                       /\ lastFetch["consumer"].state = "ok")
        /\ (r.op = "ctor" /\ r.pc = "idle" /\ r.outcome = "returned") =>
              /\ client = "ready"
              /\ r.fetches = 2
              /\ \A s \in Sessions : HoldsToken(s) /\ lastFetch[s].state = "ok"
              /\ session["consumer"] # session["setup"]
        /\ (r.op = "ctor" /\ r.pc = "idle" /\ r.outcome = "error") =>
              /\ client = "failed"
              /\ r.err = "AuthenticationError"
              /\ r.sess = "consumer" =>
                    (r.fetches = 1 /\ session["setup"] = None
                       /\ lastFetch["setup"].state = "none")
              /\ r.sess = "setup" => (r.fetches = 2 /\ HoldsToken("consumer"))

\* The consumer fetch succeeded and the setup fetch failed: the constructor
\* raised after two fetches.
C27_Witness ==
    LET r == th["t1"] IN
    /\ r.op = "ctor"
    /\ r.outcome = "error"
    /\ r.sess = "setup"
    /\ r.fetches = 2
    /\ client = "failed"
    /\ HoldsToken("consumer")
    /\ ~HoldsToken("setup")

\* C26: with two callers on the same session, every resource request goes out
\* on a session object that holds a token, that object being the one the
\* caller checked or refreshed.
C26_RequestsCarryAToken ==
    \A t \in Threads :
        LET r == th[t] IN
        \A i \in 1..Len(r.reqs) : r.reqs[i].tok.set

\* A URL of the sandbox hosts (sandbox-identity, sandbox-api).
IsSandboxUrl(u) == Len(u) >= 16 /\ SubSeq(u, 1, 16) = "https://sandbox-"

\* The URLs the client was given and the URLs it used: the token URL of every
\* token fetch and the base of every request.
UrlsOfClient ==
    {endpoints.token_url, endpoints.consumer_api, endpoints.setup_api}
    \cup {lastFetch[s].url : s \in {x \in Sessions : lastFetch[x].state # "none"}}
    \cup UNION {{th[t].reqs[i].url : i \in 1..Len(th[t].reqs)} : t \in Threads}

\* C21: the environment value selects the endpoints as a whole. For 'live' the
\* token URL and both API bases are the production ones; for every other
\* value, unrecognized ones included, all three are the sandbox ones; every
\* token fetch and every request of the client goes to a URL of that one
\* environment, never to a mix of production and sandbox.
C21_EnvironmentSelectsAllEndpoints ==
    endpoints # NoEndpoints =>
        /\ endpoints.environment = "live" =>
              /\ endpoints.token_url = "https://identity.onsched.com/connect/token"
              /\ endpoints.consumer_api = "https://api.onsched.com/consumer/v1"
              /\ endpoints.setup_api = "https://api.onsched.com/setup/v1"
              /\ \A u \in UrlsOfClient : ~IsSandboxUrl(u)
        /\ endpoints.environment # "live" =>
              /\ endpoints.token_url = "https://sandbox-identity.onsched.com/connect/token"
              /\ endpoints.consumer_api = "https://sandbox-api.onsched.com/consumer/v1"
              /\ endpoints.setup_api = "https://sandbox-api.onsched.com/setup/v1"
              /\ \A u \in UrlsOfClient : IsSandboxUrl(u)

\* A client constructed with an unrecognized environment fetched both tokens
\* and sent a setup request, all to sandbox URLs.
C21_Witness ==
    /\ endpoints.environment = "production"
    /\ lastFetch["consumer"].state = "ok"
    /\ lastFetch["setup"].url = SANDBOX_TOKEN_URL
    /\ \E t \in Threads :
          /\ th[t].api = "delete_resource"
          /\ Len(th[t].reqs) = 1
          /\ th[t].reqs[1].url = SANDBOX_API_URL_BASE \o "/setup/v1"

\* The API family a URL belongs to: under self.setup_api or under
\* self.consumer_api.
FamilyOfUrl(u) == IF u = endpoints.setup_api THEN "setup" ELSE "consumer"

\* The call of t went as far as its helper's session check.
ReachedHelper(r) == r.pc = "await_token" \/ r.reqs # <<>>

\* C25: every public operation validates and sends its request on the session
\* of the API family its URL belongs to: the setup session for a URL under the
\* setup API base, the consumer session for a URL under the consumer API base.
C25_OperationsUseTheSessionOfTheirUrl ==
    \A t \in Threads :
        LET r == th[t] IN
        (r.api \in Operations /\ ReachedHelper(r)) =>
            /\ r.sess = FamilyOfUrl(r.url)
            /\ \A i \in 1..Len(r.reqs) : r.reqs[i].sess = FamilyOfUrl(r.reqs[i].url)

\* The call of t is over.
CallOver(r) == r.pc = "idle" /\ r.outcome # "none"

\* C23: availability called with dates it accepts and a non-empty list of
\* resource ids does not fail before the request is issued: it performs a
\* paginated fetch, so the finished call has sent at least one GET request.
C23_AvailabilityWithResourceIdsFetches ==
    \A t \in Threads :
        LET r == th[t] IN
        (/\ r.api = "availability"
         /\ r.opt
         /\ ~availability_raises(r.args[1].kind, r.args[2].kind)
         /\ CallOver(r)) =>
            /\ r.reqs # <<>>
            /\ r.reqs[1].method = "GET"

\* C24: create_service called with a fee item set posts exactly one request.
C24_CreateServiceWithFeePostsOnce ==
    \A t \in Threads :
        LET r == th[t] IN
        (r.api = "create_service" /\ r.opt /\ CallOver(r)) =>
            /\ Len(r.reqs) = 1
            /\ r.reqs[1].method = "POST"

\* Reading an ISO-8601 text back: the value of a decimal digit, of a run of
\* digits, and the calendar day and time of day a text denotes.
DigitOf(c) ==
    CASE c = "0" -> 0 [] c = "1" -> 1 [] c = "2" -> 2 [] c = "3" -> 3 [] c = "4" -> 4
      [] c = "5" -> 5 [] c = "6" -> 6 [] c = "7" -> 7 [] c = "8" -> 8 [] c = "9" -> 9
      [] OTHER -> -1

IsDigits(txt) == \A i \in 1..Len(txt) : DigitOf(SubSeq(txt, i, i)) >= 0

RECURSIVE NumberOf(_)
NumberOf(txt) ==
    IF Len(txt) = 0 THEN 0
    ELSE 10 * NumberOf(SubSeq(txt, 1, Len(txt) - 1)) + DigitOf(SubSeq(txt, Len(txt), Len(txt)))

\* 'YYYY-MM-DD'
IsIsoDay(txt) ==
    /\ Len(txt) = 10
    /\ IsDigits(SubSeq(txt, 1, 4)) /\ SubSeq(txt, 5, 5) = "-"
    /\ IsDigits(SubSeq(txt, 6, 7)) /\ SubSeq(txt, 8, 8) = "-"
    /\ IsDigits(SubSeq(txt, 9, 10))

\* 'HH:MM:SS' or 'HH:MM:SS.ffffff'
IsIsoTime(txt) ==
    /\ Len(txt) \in {8, 15}
    /\ IsDigits(SubSeq(txt, 1, 2)) /\ SubSeq(txt, 3, 3) = ":"
    /\ IsDigits(SubSeq(txt, 4, 5)) /\ SubSeq(txt, 6, 6) = ":"
    /\ IsDigits(SubSeq(txt, 7, 8))
    /\ Len(txt) = 15 => SubSeq(txt, 9, 9) = "." /\ IsDigits(SubSeq(txt, 10, 15))

IsIso8601(txt) ==
    \/ IsIsoDay(txt)
    \/ /\ Len(txt) > 11
       /\ IsIsoDay(SubSeq(txt, 1, 10))
       /\ SubSeq(txt, 11, 11) = "T"
       /\ IsIsoTime(SubSeq(txt, 12, Len(txt)))

DayOf(txt) ==
    <<NumberOf(SubSeq(txt, 1, 4)), NumberOf(SubSeq(txt, 6, 7)), NumberOf(SubSeq(txt, 9, 10))>>

TimeOf(txt) ==
    IF Len(txt) = 10 THEN NoTime
    ELSE <<NumberOf(SubSeq(txt, 12, 13)), NumberOf(SubSeq(txt, 15, 16)),
           NumberOf(SubSeq(txt, 18, 19)),
           IF Len(txt) = 26 THEN NumberOf(SubSeq(txt, 21, 26)) ELSE 0>>

\* The arguments of a call with the i-th replaced by w.
ArgsWith(args, i, w) == [j \in 1..2 |-> IF j = i THEN w ELSE args[j]]

\* What the operation would forward for its i-th date argument if it were
\* called with the string txt in that place.
ForwardedForString(api, args, i, txt) ==
    LET a == ArgsWith(args, i, StrValue(txt)) IN DateParams(api, a[1], a[2])[i]

\* C22: in every request of an operation that takes date arguments, an
\* argument passed as a (non-empty) string is forwarded unchanged, and an
\* argument passed as a date or datetime is forwarded as the ISO-8601 text of
\* that day and time, which is also what the operation accepts and forwards
\* when that text is passed as a string instead.
C22_DatesForwardedAsIsoText ==
    \A t \in Threads :
        LET r == th[t] IN
        r.api \in PublicOps =>
            \A k \in 1..Len(r.reqs), i \in 1..2 :
                LET v == r.args[i]
                    sent == r.reqs[k].params[i]
                IN /\ v.kind = "str" => sent.set /\ sent.value = v.text
                   /\ v.kind \in {"date", "datetime"} =>
                         /\ sent.set
                         /\ IsIso8601(sent.value)
                         /\ DayOf(sent.value) = v.d
                         /\ TimeOf(sent.value) = v.tm
                         /\ (v.kind = "date") = (Len(sent.value) = 10)
                         /\ ~RaisesTypeError(r.api, ArgsWith(r.args, 1, StrValue(sent.value))[1].kind,
                                             r.args[2].kind) \/ i = 2
                         /\ ~RaisesTypeError(r.api, r.args[1].kind,
                                             ArgsWith(r.args, 2, StrValue(sent.value))[2].kind) \/ i = 1
                         /\ ForwardedForString(r.api, r.args, i, sent.value) = sent

\* create_appointment sent its request with a datetime that has microseconds,
\* forwarded as ISO-8601 text, and a string forwarded as it is.
C22_Witness ==
    \E t \in Threads :
        LET r == th[t] IN
        /\ r.api = "create_appointment"
        /\ r.args[1].kind = "datetime"
        /\ r.args[2] = StrValue("next tuesday")
        /\ Len(r.reqs) = 1
        /\ r.reqs[1].params[1] = Forwarded("2021-12-31T23:05:59.001500")
        /\ r.reqs[1].params[2] = Forwarded("next tuesday")

====
